---- MODULE Spec2Model ----
(***************************************************************************)
(* A model of tempofs: a read-only FUSE filesystem over HTTP resources     *)
(* (src/tempofs.py) and the seekable HTTP range stream (src/http_file.py). *)
(*                                                                         *)
(* The two classes share no state: tempofs never uses HTTPRangeFile.  The  *)
(* module therefore holds two state machines over disjoint variables:      *)
(*   SpecStream : one HTTPRangeFile object and the resource it reads;      *)
(*   SpecFS     : one tempofs object, its configured webfiles, the remote  *)
(*                resources, and the driver's directory-listing session.   *)
(* Every call is one atomic action; the HTTP server's answer to a request  *)
(* is a nondeterministic choice made inside the action.                    *)
(***************************************************************************)
EXTENDS Integers, Sequences, FiniteSets, TLC

\* ------------------------------------------------------------------ bounds
\* Longest resource, in bytes.
MaxLen == 3
\* Largest read size / buffer length handed to the stream or the filesystem.
MaxN == 2
\* Largest magnitude of a seek offset.
MaxOff == 3
\* Cap on the stream position (seek and read are not taken beyond it).
MaxPos == 4
\* ----------------------------------------------------------------- helpers
Min(a, b) == IF a <= b THEN a ELSE b

\* A header of a response is a sequence of at most one value: <<>> when the
\* header is absent, <<v>> when it is present with value v.
Absent == <<>>
Header(v) == <<v>>

\* Byte values of resource bodies; the error page uses a byte of its own so
\* that bytes taken from an error response are recognisable.
Byte == {0, 1}
ErrBody == <<2, 2>>

SeqsUpTo(S, n) == UNION {[1..k -> S] : k \in 0..n}

\* Python slice data[a:b] for 0 <= a (0-based, b exclusive, clipped).
Slice(s, a, b) == SubSeq(s, a + 1, Min(b, Len(s)))

\* ------------------------------------------------------------- HTTP server
\* Mutant of IsErrorStatus: only a 4xx status raises.
IsErrorStatus_ClientOnly(status) == status >= 400 /\ status < 500

\* Response.raise_for_status(): raises HTTPError for 4xx and 5xx.
IsErrorStatus(status) == status >= 400 /\ status < 600

\* The answers a server may give to HEAD for a resource with this content.
\* A successful answer may or may not carry Content-Length, Last-Modified
\* and Accept-Ranges; a failing one describes the error page.  No caller
\* reads Accept-Ranges together with the other two headers, so the answers
\* vary Content-Length and Last-Modified under "Accept-Ranges: bytes", and
\* Accept-Ranges with both other headers present.
AcceptRangesValues == {Header("bytes"), Header("none"), Header("weird"), Absent}
LastModifiedValues == {Header(2), Absent}

HeadResponses(content) ==
    {[status |-> 200, cl |-> c, ar |-> Header("bytes"), lm |-> l] :
        c \in {Header(Len(content)), Absent}, l \in LastModifiedValues}
    \cup
    {[status |-> 200, cl |-> Header(Len(content)), ar |-> a, lm |-> Header(2)] :
        a \in AcceptRangesValues}
    \cup
    {[status |-> 404, cl |-> Header(Len(ErrBody)), ar |-> Absent, lm |-> Absent]}

\* The answers a server may give to GET with "Range: bytes=start-end".
\*   mode "range": the server honours Range: 206 with the bytes
\*                 start..min(end, length-1); 416 with an error body when
\*                 start is at or past the end; a range whose end is before
\*                 its start is not a valid byte range and is ignored (200).
\*   mode "full" : the server ignores Range: 200 with the whole resource.
\*   mode "error": a 4xx/5xx answer with an error body.
RangeAnswer(content, start, end) ==
    IF end < start
    THEN [mode |-> "range", status |-> 200, body |-> content]
    ELSE IF start >= Len(content)
    THEN [mode |-> "range", status |-> 416, body |-> ErrBody]
    ELSE [mode |-> "range", status |-> 206, body |-> Slice(content, start, end + 1)]

GetResponses(content, start, end) ==
    { RangeAnswer(content, start, end),
      [mode |-> "full", status |-> 200, body |-> content] }
    \cup
    {[mode |-> "error", status |-> 500, body |-> ErrBody]}

\* dict.get("Content-Length", 0) followed by int().
ContentLength(resp) == IF resp.cl = Absent THEN 0 ELSE resp.cl[1]

\* A request as the client sent it.
HeadRequest == [method |-> "HEAD", start |-> -1, end |-> -1]
GetRequest(start, end) == [method |-> "GET", start |-> start, end |-> end]

\* =========================================================================
\*                        HTTPRangeFile (src/http_file.py)
\* =========================================================================
VARIABLES
    resource,   \* the bytes of the remote resource the stream's url names
    f,          \* the HTTPRangeFile object: [state, size, pos]
    sret,       \* the last call on the stream and its outcome
    sprev       \* history: <<offset, whence>> when the call before the last
                \* one was a seek that succeeded, <<>> otherwise

svars == <<resource, f, sret, sprev>>

SEEK_SET == 0
SEEK_CUR == 1
SEEK_END == 2

NoStream == [state |-> "none", size |-> 0, pos |-> 0]
NoCall == [op |-> "none", arg |-> <<>>, exc |-> "none", val |-> <<>>,
           buf |-> <<>>, reqs |-> <<>>, mode |-> "none", pos0 |-> 0]
NoPrev == <<>>

\* The stream variables while no stream exists.
StreamIdle ==
    /\ f = NoStream
    /\ sret = NoCall
    /\ sprev = NoPrev

\* What is remembered of the call before the last one: the arguments of a
\* successful seek, and that it was a close.
Summary(r) ==
    IF r.op = "seek" /\ r.exc = "none" THEN r.arg
    ELSE IF r.op = "close" /\ r.exc = "none" THEN <<"close">>
    ELSE NoPrev

\* tell(): the current position.
tell(s) == s.pos

\* The outcome of a stream call: the object afterwards and the call record.
Outcome(s, op, arg, exc, val, buf, reqs, mode, pos0) ==
    [f |-> s,
     ret |-> [op |-> op, arg |-> arg, exc |-> exc, val |-> val, buf |-> buf,
              reqs |-> reqs, mode |-> mode, pos0 |-> pos0]]

\* __init__: one HEAD probe; raise_for_status; size from Content-Length.
HTTPRangeFile_init(s, resp) ==
    IF IsErrorStatus(resp.status)
    THEN Outcome(s, "init", <<>>, "HTTPError", <<>>, <<>>,
                 <<HeadRequest>>, "error", s.pos)
    ELSE Outcome([state |-> "open", size |-> ContentLength(resp), pos |-> 0],
                 "init", <<>>, "none", <<>>, <<>>, <<HeadRequest>>, "ok", 0)

\* Mutant of readinto_end: the "- 1" of the inclusive end is forgotten.
readinto_end_OffByOne(pos, n, size) == Min(pos + n, size - 1)

\* The last byte asked for by readinto: min(pos + len(b) - 1, size - 1).
readinto_end(pos, n, size) == Min(pos + n - 1, size - 1)

\* b[:n] = data.  A bytearray takes a slice assignment of any length (the
\* buffer grows when data is longer than it); a memoryview refuses one whose
\* length differs from the slice's.
SliceAssign(kind, b, data) ==
    IF Len(data) <= Len(b)
    THEN [exc |-> "none", buf |-> data \o SubSeq(b, Len(data) + 1, Len(b))]
    ELSE IF kind = "bytearray"
    THEN [exc |-> "none", buf |-> data]
    ELSE [exc |-> "ValueError", buf |-> b]

Zeros(n) == [i \in 1..n |-> 0]

\* The range readinto asks for, given the object and the buffer length.
readinto_range(s, n) == <<s.pos, readinto_end(s.pos, n, s.size)>>

\* readinto(b), b a zeroed buffer of length n and the given kind; resp is
\* the server's answer to the GET (unused at EOF, where none is sent).
readinto(s, kind, n, resp) ==
    LET b == Zeros(n)
        req == GetRequest(readinto_range(s, n)[1], readinto_range(s, n)[2])
    IN  IF s.pos >= s.size
        THEN Outcome(s, "readinto", <<kind, n>>, "none", 0, b, <<>>, "none", s.pos)
        ELSE IF IsErrorStatus(resp.status)
        THEN Outcome(s, "readinto", <<kind, n>>, "HTTPError", 0, b,
                     <<req>>, resp.mode, s.pos)
        ELSE LET data == resp.body
                 a == SliceAssign(kind, b, data)
             IN  IF a.exc # "none"
                 THEN Outcome(s, "readinto", <<kind, n>>, a.exc, 0, a.buf,
                              <<req>>, resp.mode, s.pos)
                 ELSE Outcome([s EXCEPT !.pos = s.pos + Len(data)],
                              "readinto", <<kind, n>>, "none", Len(data), a.buf,
                              <<req>>, resp.mode, s.pos)

\* The range read(-1) asks for: from pos to size - 1.
readall_range(s) == <<s.pos, s.size - 1>>

\* Mutant of read_truncate: the buffer is returned whole.
read_truncate_Never(buffer, n, size) == buffer

\* read(size), size > 0: "if n < size: buffer = buffer[:n]".
read_truncate(buffer, n, size) == IF n < size THEN Slice(buffer, 0, n) ELSE buffer

\* read(size).
read(s, size, resp) ==
    IF size < 0
    THEN IF s.pos >= s.size
         THEN Outcome(s, "read", <<size>>, "none", <<>>, <<>>, <<>>, "none", s.pos)
         ELSE LET req == GetRequest(readall_range(s)[1], readall_range(s)[2])
              IN  IF IsErrorStatus(resp.status)
                  THEN Outcome(s, "read", <<size>>, "HTTPError", <<>>, <<>>,
                               <<req>>, resp.mode, s.pos)
                  ELSE Outcome([s EXCEPT !.pos = s.pos + Len(resp.body)],
                               "read", <<size>>, "none", resp.body, <<>>,
                               <<req>>, resp.mode, s.pos)
    ELSE IF size = 0
    THEN Outcome(s, "read", <<size>>, "none", <<>>, <<>>, <<>>, "none", s.pos)
    ELSE LET r == readinto(s, "bytearray", size, resp)
             n == r.ret.val
             buffer == read_truncate(r.ret.buf, n, size)
         IN  Outcome(r.f, "read", <<size>>, r.ret.exc,
                     IF r.ret.exc = "none" THEN buffer ELSE <<>>, <<>>,
                     r.ret.reqs, r.ret.mode, s.pos)

\* Mutant of seek_newpos: SEEK_END measured from the position, not the size.
seek_newpos_EndFromPos(s, offset, whence) ==
    IF whence = SEEK_SET THEN [exc |-> "none", newpos |-> offset]
    ELSE IF whence = SEEK_CUR THEN [exc |-> "none", newpos |-> s.pos + offset]
    ELSE IF whence = SEEK_END THEN [exc |-> "none", newpos |-> s.pos + offset]
    ELSE [exc |-> "ValueError", newpos |-> s.pos]

\* The position seek computes, or the error it raises.
seek_newpos(s, offset, whence) ==
    IF whence = SEEK_SET THEN [exc |-> "none", newpos |-> offset]
    ELSE IF whence = SEEK_CUR THEN [exc |-> "none", newpos |-> s.pos + offset]
    ELSE IF whence = SEEK_END THEN [exc |-> "none", newpos |-> s.size + offset]
    ELSE [exc |-> "ValueError", newpos |-> s.pos]

\* seek(offset, whence).
seek(s, offset, whence) ==
    LET t == seek_newpos(s, offset, whence)
    IN  IF t.exc # "none"
        THEN Outcome(s, "seek", <<offset, whence>>, t.exc, <<>>, <<>>, <<>>,
                     "none", s.pos)
        ELSE IF t.newpos < 0
        THEN Outcome(s, "seek", <<offset, whence>>, "OSError", <<>>, <<>>, <<>>,
                     "none", s.pos)
        ELSE Outcome([s EXCEPT !.pos = t.newpos], "seek", <<offset, whence>>,
                     "none", t.newpos, <<>>, <<>>, "none", s.pos)

\* Mutant of close: releasing a stream that is already closed fails.
close_FailsWhenClosed(s) ==
    IF s.state = "closed"
    THEN Outcome(s, "close", <<>>, "ValueError", <<>>, <<>>, <<>>, "none", s.pos)
    ELSE Outcome([s EXCEPT !.state = "closed"], "close", <<>>, "none", <<>>,
                 <<>>, <<>>, "none", s.pos)

\* close(): session.close(), then in any case IOBase.close().  Session.close
\* drops the session's pooled connections and IOBase.close sets the closed
\* flag; neither fails on an object that is closed already, neither sends a
\* request, and neither touches pos or size.
close(s) ==
    Outcome([s EXCEPT !.state = "closed"], "close", <<>>, "none", <<>>, <<>>,
            <<>>, "none", s.pos)

\* =========================================================================
\*                           tempofs (src/tempofs.py)
\* =========================================================================
VARIABLES
    files,      \* tempofs.files: the webfiles [inode, name, url] in order
    remote,     \* url -> the bytes of the resource it names
    ret,        \* the last filesystem call and its outcome
    listing     \* the driver's directory listing: the index it resumes at,
                \* the names emitted so far, and how the listing ended

fvars == <<files, remote, ret, listing>>

\* pyfuse3.ROOT_INODE.
ROOT_INODE == 1

\* os.O_WRONLY, os.O_RDWR, os.O_TRUNC, os.O_APPEND (Linux), and a flag bit
\* that carries no write intent (O_NONBLOCK, 2048).
O_WRONLY == 1
O_RDWR == 2
O_TRUNC == 512
O_APPEND == 1024
O_NONBLOCK == 2 * O_APPEND

\* Python values: a str is a sequence of code points, a bytes object a
\* sequence of byte values.  A str never equals a bytes object.
Str(s) == [type |-> "str", v |-> s]
Bytes(b) == [type |-> "bytes", v |-> b]

\* bytes(name, encoding="ascii").
EncodeAscii(name) ==
    IF \A i \in 1..Len(name.v) : name.v[i] < 128
    THEN [exc |-> "none", val |-> Bytes(name.v)]
    ELSE [exc |-> "UnicodeEncodeError", val |-> Bytes(<<>>)]

\* Names a configuration may hold: "a", "b" and the non-ASCII "e-acute".
NameA == Str(<<97>>)
NameB == Str(<<98>>)
NameE == Str(<<233>>)

\* The configurations: the names of the YAML mapping, in order (keys of a
\* mapping are distinct).  The i-th entry's url is i, and the resources are
\* of different lengths: each length 0..MaxLen occurs for each entry.
Configs == {<<>>, <<NameA>>, <<NameE>>, <<NameA, NameB>>, <<NameB, NameA>>,
            <<NameA, NameE>>}

\* Mutant of Build: the "+ 1" is forgotten, so numbering starts at the root's
\* inode.
RECURSIVE Build_FromRoot(_, _)
Build_FromRoot(names, built) ==
    IF names = <<>> THEN built
    ELSE Build_FromRoot(Tail(names),
                        Append(built, [inode |-> ROOT_INODE + Len(built),
                                       name |-> Head(names),
                                       url |-> Len(built) + 1]))

\* tempofs.__init__: inode = ROOT_INODE + 1 + len(self.files), appended.
RECURSIVE Build(_, _)
Build(names, built) ==
    IF names = <<>> THEN built
    ELSE Build(Tail(names),
               Append(built, [inode |-> ROOT_INODE + 1 + Len(built),
                              name |-> Head(names),
                              url |-> Len(built) + 1]))

\* The resource of url u when it is n bytes long: every byte differs from
\* every other byte of every resource and from the error page's.
Pattern(u, n) == [i \in 1..n |-> 10 * u + i]

\* pyfuse3.EntryAttributes(): every field zero.
EntryAttributes ==
    [st_ino |-> 0, st_mode |-> <<"none", 0, 0, 0>>, st_size |-> 0,
     st_uid |-> 0, st_gid |-> 0,
     st_ctime_ns |-> 0, st_atime_ns |-> 0, st_mtime_ns |-> 0]

\* stat.S_IFREG | 0o444 and stat.S_IFDIR | 0o755.
FileMode == <<"S_IFREG", 4, 4, 4>>
DirMode == <<"S_IFDIR", 7, 5, 5>>

\* os.getuid() and os.getgid(): the ids of the process (real and effective
\* ids coincide: the process is not set-id).
ProcessIds == [uid |-> 1000, gid |-> 100]

\* parsedate_to_datetime(h).timestamp() * 1e9, h given in whole seconds.
NsPerSecond == 1000000000
Timestamp(lm) == IF lm = Absent THEN 0 ELSE lm[1] * NsPerSecond

\* logging.warning(msg, value): the message and the value formatted into it.
Warning(msg, value) == [msg |-> msg, value |-> <<value>>]

\* The outcome of a filesystem call.
\*   exc  : "none" or the exception raised (FUSEError by its errno name)
\*   val  : the value returned
\*   reqs : the HTTP requests sent, resps : the server's answers to them
\*   emit : the entries handed to pyfuse3.readdir_reply
\*   log  : the warnings logged
FsRet(op, arg, exc, val, reqs, resps, emit, log) ==
    [op |-> op, arg |-> arg, exc |-> exc, val |-> val, reqs |-> reqs,
     resps |-> resps, emit |-> emit, log |-> log]

NoFsCall == FsRet("none", <<>>, "none", <<>>, <<>>, <<>>, <<>>, <<>>)

FsHead(file) == [method |-> "HEAD", url |-> file.url, start |-> -1, end |-> -1]
FsGet(file, start, end) ==
    [method |-> "GET", url |-> file.url, start |-> start, end |-> end]

\* Mutant of webfile_getattr: the size is not taken from the answer's
\* Content-Length.
webfile_getattr_SizeNotProbed(file, resp) ==
    [EntryAttributes EXCEPT
        !.st_ino = file.inode,
        !.st_mode = FileMode,
        !.st_ctime_ns = Timestamp(resp.lm),
        !.st_atime_ns = Timestamp(resp.lm),
        !.st_mtime_ns = Timestamp(resp.lm),
        !.st_size = 0]

\* webfile.getattr: one HEAD, whose status is not looked at.
webfile_getattr(file, resp) ==
    [EntryAttributes EXCEPT
        !.st_ino = file.inode,
        !.st_mode = FileMode,
        !.st_ctime_ns = Timestamp(resp.lm),
        !.st_atime_ns = Timestamp(resp.lm),
        !.st_mtime_ns = Timestamp(resp.lm),
        !.st_size = ContentLength(resp)]

\* tempofs.find: the index of the first file with this inode, 0 if none
\* (where the code raises IndexError).
find(fs, inode) ==
    IF \E i \in 1..Len(fs) : fs[i].inode = inode
    THEN CHOOSE i \in 1..Len(fs) :
            fs[i].inode = inode /\ \A j \in 1..(i - 1) : fs[j].inode # inode
    ELSE 0

\* tempofs.getattr.
tempofs_getattr(fs, inode, resp) ==
    IF inode = ROOT_INODE
    THEN FsRet("getattr", <<inode>>, "none",
               [EntryAttributes EXCEPT !.st_mode = DirMode, !.st_size = 0,
                    !.st_gid = ProcessIds.gid, !.st_uid = ProcessIds.uid,
                    !.st_ino = inode],
               <<>>, <<>>, <<>>, <<>>)
    ELSE IF find(fs, inode) # 0
    THEN LET file == fs[find(fs, inode)]
         IN  FsRet("getattr", <<inode>>, "none",
                   [webfile_getattr(file, resp) EXCEPT
                        !.st_gid = ProcessIds.gid, !.st_uid = ProcessIds.uid,
                        !.st_ino = inode],
                   <<FsHead(file)>>, <<resp>>, <<>>, <<>>)
    ELSE FsRet("getattr", <<inode>>, "ENOENT", <<>>, <<>>, <<>>, <<>>, <<>>)

\* The index of the first file whose name equals the name given, 0 if none.
find_name(fs, name) ==
    IF \E i \in 1..Len(fs) : fs[i].name = name
    THEN CHOOSE i \in 1..Len(fs) :
            fs[i].name = name /\ \A j \in 1..(i - 1) : fs[j].name # name
    ELSE 0

\* Mutant of lookup_parent_ok: the parent is not checked.
lookup_parent_ok_Any(parent_inode) == TRUE

\* The parent check of lookup.
lookup_parent_ok(parent_inode) == parent_inode = ROOT_INODE

\* tempofs.lookup: on a match it returns file.getattr() without awaiting
\* it: a coroutine object that has sent no request and holds no attributes.
tempofs_lookup(fs, parent_inode, name) ==
    IF ~lookup_parent_ok(parent_inode)
    THEN FsRet("lookup", <<parent_inode, name>>, "ENOENT", <<>>, <<>>, <<>>, <<>>, <<>>)
    ELSE IF find_name(fs, name) # 0
    THEN FsRet("lookup", <<parent_inode, name>>, "none",
               [coroutine |-> "webfile.getattr",
                inode |-> fs[find_name(fs, name)].inode],
               <<>>, <<>>, <<>>, <<>>)
    ELSE FsRet("lookup", <<parent_inode, name>>, "ENOENT", <<>>, <<>>, <<>>, <<>>, <<>>)

\* tempofs.opendir.
tempofs_opendir(inode) ==
    IF inode # ROOT_INODE
    THEN FsRet("opendir", <<inode>>, "ENOENT", <<>>, <<>>, <<>>, <<>>, <<>>)
    ELSE FsRet("opendir", <<inode>>, "none", inode, <<>>, <<>>, <<>>, <<>>)

\* self.files[start_id]: Python list indexing, 0-based, a negative index
\* counting from the end; 0 where the code raises IndexError.
list_index(fs, start_id) ==
    IF start_id >= 0 /\ start_id < Len(fs) THEN start_id + 1
    ELSE IF start_id < 0 /\ start_id >= -Len(fs) THEN Len(fs) + start_id + 1
    ELSE 0

\* tempofs.readdir.  The arguments of readdir_reply are evaluated in order:
\* the name is encoded before the attributes are fetched.
tempofs_readdir(fs, fh, start_id, resp) ==
    IF fh # ROOT_INODE
    THEN FsRet("readdir", <<fh, start_id>>, "AssertionError", <<>>, <<>>, <<>>, <<>>, <<>>)
    ELSE IF list_index(fs, start_id) = 0
    THEN FsRet("readdir", <<fh, start_id>>, "ENOENT", <<>>, <<>>, <<>>, <<>>, <<>>)
    ELSE LET file == fs[list_index(fs, start_id)]
             enc == EncodeAscii(file.name)
         IN  IF enc.exc # "none"
             THEN FsRet("readdir", <<fh, start_id>>, enc.exc, <<>>, <<>>, <<>>, <<>>, <<>>)
             ELSE FsRet("readdir", <<fh, start_id>>, "none", <<>>,
                        <<FsHead(file)>>, <<resp>>,
                        <<[name |-> enc.val,
                           attr |-> webfile_getattr(file, resp),
                           next |-> start_id + 1]>>,
                        <<>>)

\* Bitwise and of two naturals.
RECURSIVE BitAnd(_, _)
BitAnd(a, b) ==
    IF a = 0 \/ b = 0 THEN 0
    ELSE (a % 2) * (b % 2) + 2 * BitAnd(a \div 2, b \div 2)

\* Mutant of open_denied: O_TRUNC is not tested.
open_denied_NoTrunc(flags) ==
    \/ BitAnd(flags, O_APPEND) # 0
    \/ BitAnd(flags, O_RDWR) # 0
    \/ BitAnd(flags, O_WRONLY) # 0

\* The write-intent test of open.
open_denied(flags) ==
    \/ BitAnd(flags, O_APPEND) # 0
    \/ BitAnd(flags, O_TRUNC) # 0
    \/ BitAnd(flags, O_RDWR) # 0
    \/ BitAnd(flags, O_WRONLY) # 0

\* webfile.getfileinfo: one HEAD, whose status is not looked at.  An absent
\* Accept-Ranges reads as True, which is not in the list of silent values.
SilentValues == {"none", "false", "False", "0", "no", "No"}

\* Mutant of webfile_getfileinfo: an absent Accept-Ranges header reads as
\* seekable.
webfile_getfileinfo_AbsentSeekable(file, resp) ==
    LET seekable == resp.ar \in {Header("bytes"), Absent}
    IN  [val |-> [fh |-> file.inode, keep_cache |-> TRUE,
                  nonseekable |-> ~seekable],
         log |-> IF seekable THEN <<>>
                 ELSE <<Warning("File is nonseekable", file.name)>>]

webfile_getfileinfo(file, resp) ==
    LET bytes == resp.ar = Header("bytes")
        unknown == ~bytes /\ (resp.ar = Absent \/ resp.ar[1] \notin SilentValues)
    IN  [val |-> [fh |-> file.inode, keep_cache |-> TRUE, nonseekable |-> ~bytes],
         log |-> (IF unknown
                  THEN <<Warning("Unknown Accept-Ranges value",
                                 IF resp.ar = Absent THEN "True" ELSE resp.ar[1])>>
                  ELSE <<>>)
                 \o (IF ~bytes
                     THEN <<Warning("File is nonseekable", file.name)>>
                     ELSE <<>>)]

\* tempofs.open.
tempofs_open(fs, inode, flags, resp) ==
    IF open_denied(flags)
    THEN FsRet("open", <<inode, flags>>, "EACCES", <<>>, <<>>, <<>>, <<>>,
               <<Warning("Only read is supported", flags)>>)
    ELSE IF find(fs, inode) = 0
    THEN FsRet("open", <<inode, flags>>, "ENOENT", <<>>, <<>>, <<>>, <<>>, <<>>)
    ELSE LET file == fs[find(fs, inode)]
             fi == webfile_getfileinfo(file, resp)
         IN  FsRet("open", <<inode, flags>>, "none", fi.val,
                   <<FsHead(file)>>, <<resp>>, <<>>, fi.log)

\* Mutant of webfile_read_range: the end is exclusive, not inclusive.
webfile_read_range_Exclusive(off, size) == <<off, off + size>>

\* The Range header of webfile.read: bytes=off-(off + size - 1).
webfile_read_range(off, size) == <<off, off + size - 1>>

\* tempofs.read: find raises IndexError, which read does not catch; the
\* status of the answer is not looked at.
tempofs_read(fs, fh, off, size, resp) ==
    IF find(fs, fh) = 0
    THEN FsRet("read", <<fh, off, size>>, "IndexError", <<>>, <<>>, <<>>, <<>>, <<>>)
    ELSE LET file == fs[find(fs, fh)]
             r == webfile_read_range(off, size)
         IN  FsRet("read", <<fh, off, size>>, "none", resp.body,
                   <<FsGet(file, r[1], r[2])>>, <<resp>>, <<>>, <<>>)


\* =========================================================================
\*                 threads sharing one HTTPRangeFile object
\* =========================================================================
VARIABLES
    th,         \* thread -> where the thread is in its readinto call
    tasks,      \* worker task -> the request it serves and where it is in it
    loop,       \* the task that holds the event loop's thread, 0 when none
    fprev,      \* what the filesystem call before the last one returned
    reader      \* what a reader of the stream has been handed so far

cvars == <<th, tasks, loop, fprev, reader>>

Threads == {1, 2}

\* A thread's place in readinto(b), with its local variables.
\*   pc    : "idle" (not called yet), "sent" (the GET is sent and not yet
\*           answered), "loaded" (in "self.pos += n": self.pos is loaded and
\*           not yet stored), "done" (returned or raised)
\*   n     : len(b);  start, end : the range asked for
\*   mode  : how the server answered;  data : resp.content
\*   old   : the value of self.pos loaded by "self.pos += n"
\*   exc, val : the exception raised, the value returned
\*   base  : the position of the stream before either thread called
NoThread == [pc |-> "idle", n |-> 0, start |-> 0, end |-> 0, mode |-> "none",
             data |-> <<>>, old |-> 0, exc |-> "none", val |-> 0, base |-> 0]

ThreadsIdle == th = [t \in Threads |-> NoThread]

\* readinto up to the GET: the EOF test, and the range computed from self.pos.
thread_send(s, t, n) ==
    IF s.pos >= s.size
    THEN [t EXCEPT !.pc = "done", !.n = n, !.val = 0]
    ELSE [t EXCEPT !.pc = "sent", !.n = n,
                   !.start = readinto_range(s, n)[1],
                   !.end = readinto_range(s, n)[2]]

\* readinto from the answer to the load of self.pos in "self.pos += n":
\* raise_for_status, data = resp.content, b[:n] = data (b is the bytearray
\* read(size) allocates, which takes any length).
thread_receive(s, t, resp) ==
    IF IsErrorStatus(resp.status)
    THEN [t EXCEPT !.pc = "done", !.mode = resp.mode, !.exc = "HTTPError"]
    ELSE [t EXCEPT !.pc = "loaded", !.mode = resp.mode, !.data = resp.body,
                   !.old = s.pos]

\* The store of "self.pos += n", and the return of n.
thread_store(s, t) ==
    [f |-> [s EXCEPT !.pos = t.old + Len(t.data)],
     t |-> [t EXCEPT !.pc = "done", !.val = Len(t.data)]]

\* What a filesystem call took from its probe of a configured entry: the
\* size getattr returned or readdir emitted, the nonseekable open returned.
NoProbe == [op |-> "none", inode |-> 0, out |-> <<>>]
Probed(fs, r) ==
    IF r.op = "getattr" /\ r.exc = "none" /\ find(fs, r.arg[1]) # 0
    THEN [op |-> "getattr", inode |-> r.arg[1], out |-> <<r.val.st_size>>]
    ELSE IF r.op = "readdir" /\ r.emit # <<>>
    THEN [op |-> "readdir", inode |-> r.emit[1].attr.st_ino,
          out |-> <<r.emit[1].attr.st_size>>]
    ELSE IF r.op = "open" /\ r.exc = "none"
    THEN [op |-> "open", inode |-> r.arg[1], out |-> <<r.val.nonseekable>>]
    ELSE NoProbe

\* What a reader that only reads has seen of one stream since it was
\* constructed.
\*   acc    : the bytes the read calls returned, in order
\*   seq    : whether every call so far was a read(n), n > 0, that returned
\*            and whose GET, if it sent one, was answered by a server
\*            honouring Range
\*   last   : <<position, size>> before the last call
\*   failed : <<position, size>> before the call before the last one, when
\*            that call failed on a non-success status; <<>> otherwise
NoReader == [acc |-> <<>>, seq |-> FALSE, last |-> <<>>, failed |-> <<>>]
NewReader == [acc |-> <<>>, seq |-> TRUE, last |-> <<>>, failed |-> <<>>]
Follow(rd, s, r, o) ==
    LET seq == /\ rd.seq /\ o.ret.op = "read" /\ o.ret.arg[1] > 0
               /\ o.ret.exc = "none" /\ o.ret.mode \in {"range", "none"}
    IN  [acc |-> IF seq THEN rd.acc \o o.ret.val ELSE <<>>,
         seq |-> seq,
         last |-> <<s.pos, s.size>>,
         failed |-> IF r.exc = "HTTPError" THEN rd.last ELSE <<>>]

NoHistory == fprev = NoProbe /\ reader = NoReader

\* =========================================================================
\*          worker tasks serving filesystem requests (trio, pyfuse3)
\* =========================================================================
\* pyfuse3.main runs worker tasks on one trio event loop (trio.run in main);
\* a task takes a request of the kernel and awaits the tempofs handler.
\*   pc   : "idle", "pending" (a request is taken, its handler not yet
\*          entered), "waiting" (the handler has sent its HTTP request and
\*          has no answer yet), "replied" (the handler has returned)
\*   op, inode : the request
\*   overlap   : whether some other task was waiting for its HTTP answer
\*               when this task's handler was entered
Tasks == {1, 2}
NoTask == [pc |-> "idle", op |-> "none", inode |-> 0, overlap |-> FALSE]

TasksIdle == tasks = [t \in Tasks |-> NoTask] /\ loop = 0

\* The requests served: getattr(inode), open(inode, O_RDONLY), read(inode, 0, 1).
TaskOps == {"getattr", "open", "read"}

\* Whether the handler sends an HTTP request: it does so for a configured
\* inode (these three handlers send none for any other).
task_requests(fs, inode) == find(fs, inode) # 0

\* The handler of a request, run to its end with the server's answer.
task_handler(fs, op, inode, resp) ==
    CASE op = "getattr" -> tempofs_getattr(fs, inode, resp)
      [] op = "open" -> tempofs_open(fs, inode, 0, resp)
      [] op = "read" -> tempofs_read(fs, inode, 0, 1, resp)

\* The answers the server may give to the handler's request.
task_answers(fs, rem, op, inode) ==
    IF op = "read"
    THEN GetResponses(rem[fs[find(fs, inode)].url],
                      webfile_read_range(0, 1)[1], webfile_read_range(0, 1)[2])
    ELSE HeadResponses(rem[fs[find(fs, inode)].url])

\* --------------------------------------------------------------- FS actions
vars == <<svars, fvars, cvars>>

NoListing == [next |-> -1, names |-> <<>>, end |-> "none"]

FsIdle ==
    /\ files = <<>>
    /\ remote = <<>>
    /\ ret = NoFsCall
    /\ listing = NoListing

\* The arguments the driver and other callers hand in.
Inodes == ROOT_INODE..(ROOT_INODE + 3)
FlagBits == {O_WRONLY, O_RDWR, O_TRUNC, O_APPEND, O_NONBLOCK}
Flags == {0} \cup FlagBits \cup {O_NONBLOCK + O_WRONLY, O_APPEND + O_TRUNC}
LookupNames == {Bytes(<<97>>), Bytes(<<98>>), Bytes(<<195, 169>>),
                Bytes(<<122>>), Str(<<97>>), Str(<<233>>)}
StartIds == -1..MaxN

\* A placeholder for the server's answer in a call that sends no request.
NoResp == [status |-> 0]

\* A call other than opendir and readdir.  The listing that is followed is
\* one whose calls come one after the other: any other call in between
\* ends the following of it.
FsApply(r) ==
    /\ ret' = r
    /\ listing' = NoListing
    /\ UNCHANGED <<files, remote>>
    /\ UNCHANGED <<resource, svars, cvars>>

Getattr ==
    \E inode \in Inodes :
        IF find(files, inode) # 0
        THEN \E resp \in HeadResponses(remote[files[find(files, inode)].url]) :
                FsApply(tempofs_getattr(files, inode, resp))
        ELSE FsApply(tempofs_getattr(files, inode, NoResp))

Lookup ==
    \E parent_inode \in Inodes, name \in LookupNames :
        FsApply(tempofs_lookup(files, parent_inode, name))

\* opendir; a successful one starts a listing at index 0.
Opendir ==
    \E inode \in Inodes :
        LET r == tempofs_opendir(inode)
        IN  /\ ret' = r
            /\ listing' = IF r.exc = "none"
                          THEN [next |-> 0, names |-> <<>>, end |-> "none"]
                          ELSE listing
            /\ UNCHANGED <<files, remote>>
            /\ UNCHANGED <<resource, svars, cvars>>

\* The listing after a readdir call: a call that resumes the listing where
\* it stands either adds the entry emitted and moves to the resume index
\* emitted with it, or ends the listing with the error raised.
Listed(l, r) ==
    IF l.next >= 0 /\ r.arg = <<ROOT_INODE, l.next>>
    THEN IF r.exc = "none"
         THEN [next |-> r.emit[1].next,
               names |-> Append(l.names, r.emit[1].name),
               end |-> "none"]
         ELSE [next |-> -1, names |-> l.names, end |-> r.exc]
    ELSE l

ReaddirApply(r) ==
    /\ ret' = r
    /\ listing' = Listed(listing, r)
    /\ UNCHANGED <<files, remote>>
    /\ UNCHANGED <<resource, svars, cvars>>

Readdir ==
    \E fh \in {ROOT_INODE, ROOT_INODE + 1}, start_id \in StartIds :
        IF fh = ROOT_INODE /\ list_index(files, start_id) # 0
        THEN \E resp \in HeadResponses(
                    remote[files[list_index(files, start_id)].url]) :
                ReaddirApply(tempofs_readdir(files, fh, start_id, resp))
        ELSE ReaddirApply(tempofs_readdir(files, fh, start_id, NoResp))

Open ==
    \E inode \in Inodes, flags \in Flags :
        IF ~open_denied(flags) /\ find(files, inode) # 0
        THEN \E resp \in HeadResponses(remote[files[find(files, inode)].url]) :
                FsApply(tempofs_open(files, inode, flags, resp))
        ELSE FsApply(tempofs_open(files, inode, flags, NoResp))

FsRead ==
    \E fh \in Inodes, off \in 0..MaxOff, size \in 1..MaxN :
        IF find(files, fh) # 0
        THEN \E resp \in GetResponses(remote[files[find(files, fh)].url],
                                      webfile_read_range(off, size)[1],
                                      webfile_read_range(off, size)[2]) :
                FsApply(tempofs_read(files, fh, off, size, resp))
        ELSE FsApply(tempofs_read(files, fh, off, size, NoResp))

FsInit ==
    /\ \E names \in Configs :
          /\ files = Build(names, <<>>)
          /\ \E len \in 0..MaxLen :
                remote = [u \in 1..Len(names) |->
                            Pattern(u, (len + u - 1) % (MaxLen + 1))]
    /\ ret = NoFsCall
    /\ listing = NoListing
    /\ resource = <<>>
    /\ StreamIdle
    /\ ThreadsIdle
    /\ TasksIdle
    /\ NoHistory

FsNext == Getattr \/ Lookup \/ Opendir \/ Readdir \/ Open \/ FsRead

SpecFS == FsInit /\ [][FsNext]_vars

\* ------------------------------------------- FS actions, the remote changing
\* The probing calls against a server whose resources change between calls.
ProbeApply(r) ==
    /\ ret' = r
    /\ fprev' = Probed(files, ret)
    /\ listing' = NoListing
    /\ UNCHANGED <<files, remote, resource, svars, th, tasks, loop, reader>>

ProbeGetattr ==
    \E inode \in ROOT_INODE..(ROOT_INODE + 2) :
        IF find(files, inode) # 0
        THEN \E resp \in HeadResponses(remote[files[find(files, inode)].url]) :
                ProbeApply(tempofs_getattr(files, inode, resp))
        ELSE ProbeApply(tempofs_getattr(files, inode, NoResp))

ProbeReaddir ==
    \E start_id \in 0..Len(files) :
        IF list_index(files, start_id) # 0
        THEN \E resp \in HeadResponses(
                    remote[files[list_index(files, start_id)].url]) :
                ProbeApply(tempofs_readdir(files, ROOT_INODE, start_id, resp))
        ELSE ProbeApply(tempofs_readdir(files, ROOT_INODE, start_id, NoResp))

ProbeOpen ==
    \E inode \in ROOT_INODE..(ROOT_INODE + 2), flags \in {0, O_WRONLY} :
        IF ~open_denied(flags) /\ find(files, inode) # 0
        THEN \E resp \in HeadResponses(remote[files[find(files, inode)].url]) :
                ProbeApply(tempofs_open(files, inode, flags, resp))
        ELSE ProbeApply(tempofs_open(files, inode, flags, NoResp))

\* The resource of the first entry's url is replaced by one of another
\* length (the second entry's stays as it is).
RemoteChange ==
    /\ \E u \in {files[1].url}, n \in 0..MaxLen :
          /\ n # Len(remote[u])
          /\ remote' = [remote EXCEPT ![u] = Pattern(u, n)]
    /\ UNCHANGED <<files, ret, listing, resource, svars, cvars>>

RemoteInit ==
    /\ \E names \in {<<NameA>>, <<NameA, NameB>>} :
          /\ files = Build(names, <<>>)
          /\ remote = [u \in 1..Len(names) |-> Pattern(u, u)]
    /\ ret = NoFsCall
    /\ listing = NoListing
    /\ resource = <<>>
    /\ StreamIdle
    /\ ThreadsIdle
    /\ TasksIdle
    /\ NoHistory

RemoteNext == ProbeGetattr \/ ProbeReaddir \/ ProbeOpen \/ RemoteChange

SpecFSRemote == RemoteInit /\ [][RemoteNext]_vars

\* ------------------------------------------------------------- task actions
\* A worker task takes a request of the kernel.
TaskTake(t) ==
    /\ tasks[t].pc \in {"idle", "replied"}
    /\ \E op \in TaskOps, inode \in ROOT_INODE..(ROOT_INODE + 2) :
          tasks' = [tasks EXCEPT ![t] = [pc |-> "pending", op |-> op,
                                         inode |-> inode, overlap |-> FALSE]]
    /\ UNCHANGED <<loop, fvars, resource, svars, th, fprev, reader>>

\* The event loop runs the task: the handler is entered and runs up to its
\* HTTP request, or to its end when it sends none.  The handlers call
\* requests' session.head / session.get, plain blocking calls: nothing is
\* awaited while the answer is outstanding, so the loop's thread stays with
\* this task, and the loop can run a task only when no task holds it.
TaskEnter(t) ==
    /\ tasks[t].pc = "pending"
    /\ loop = 0
    /\ LET overlap == \E u \in Tasks \ {t} : tasks[u].pc = "waiting"
       IN  IF task_requests(files, tasks[t].inode)
           THEN /\ tasks' = [tasks EXCEPT ![t].pc = "waiting",
                                          ![t].overlap = overlap]
                /\ loop' = t
                /\ UNCHANGED ret
           ELSE /\ tasks' = [tasks EXCEPT ![t].pc = "replied",
                                          ![t].overlap = overlap]
                /\ loop' = 0
                /\ ret' = task_handler(files, tasks[t].op, tasks[t].inode, NoResp)
    /\ UNCHANGED <<files, remote, listing, resource, svars, th, fprev, reader>>

\* The answer arrives: the blocking call returns, the handler runs to its
\* end, and the loop's thread is free again.
TaskAnswer(t) ==
    /\ tasks[t].pc = "waiting"
    /\ loop = t
    /\ \E resp \in task_answers(files, remote, tasks[t].op, tasks[t].inode) :
          ret' = task_handler(files, tasks[t].op, tasks[t].inode, resp)
    /\ tasks' = [tasks EXCEPT ![t].pc = "replied"]
    /\ loop' = 0
    /\ UNCHANGED <<files, remote, listing, resource, svars, th, fprev, reader>>

TasksInit ==
    /\ \E names \in Configs \ {<<>>} :
          /\ files = Build(names, <<>>)
          /\ \E len \in 0..MaxLen :
                remote = [u \in 1..Len(names) |->
                            Pattern(u, (len + u - 1) % (MaxLen + 1))]
    /\ ret = NoFsCall
    /\ listing = NoListing
    /\ resource = <<>>
    /\ StreamIdle
    /\ ThreadsIdle
    /\ TasksIdle
    /\ NoHistory

TasksNext == \E t \in Tasks : TaskTake(t) \/ TaskEnter(t) \/ TaskAnswer(t)

\* The kernel keeps sending requests, the loop runs a task that can run,
\* and the server answers in the end.
SpecTasks == TasksInit /\ [][TasksNext]_vars /\ WF_vars(TasksNext)

\* ----------------------------------------------------------- stream actions
Apply(o) ==
    /\ o.f.pos <= MaxPos
    /\ f' = o.f
    /\ sret' = o.ret
    /\ sprev' = Summary(sret)
    /\ UNCHANGED resource
    /\ UNCHANGED <<fvars, cvars>>

Construct ==
    /\ f.state = "none"
    /\ \E resp \in HeadResponses(resource) : Apply(HTTPRangeFile_init(NoStream, resp))

Read ==
    /\ f.state # "none"
    /\ \E size \in -1..MaxN :
       \E resp \in GetResponses(resource, f.pos,
                                IF size < 0 THEN readall_range(f)[2]
                                ELSE readinto_range(f, size)[2]) :
          Apply(read(f, size, resp))

Readinto ==
    /\ f.state # "none"
    /\ \E kind \in {"bytearray", "memoryview"}, n \in 0..MaxN :
       \E resp \in GetResponses(resource, f.pos, readinto_range(f, n)[2]) :
          Apply(readinto(f, kind, n, resp))

Seek ==
    /\ f.state # "none"
    /\ \E offset \in -MaxOff..MaxOff, whence \in 0..3 :
          Apply(seek(f, offset, whence))

Tell ==
    /\ f.state # "none"
    /\ Apply(Outcome(f, "tell", <<>>, "none", tell(f), <<>>, <<>>, "none", f.pos))

StreamInit ==
    /\ resource \in SeqsUpTo(Byte, MaxLen)
    /\ StreamIdle
    /\ FsIdle
    /\ ThreadsIdle
    /\ TasksIdle
    /\ NoHistory

StreamNext == Construct \/ Read \/ Readinto \/ Seek \/ Tell

SpecStream == StreamInit /\ [][StreamNext]_vars

\* The stream with its close(), brought to its positions by read and seek.
\* No method of HTTPRangeFile looks at the closed flag, so every call stays
\* possible on a closed stream.
Close ==
    /\ f.state # "none"
    /\ Apply(close(f))

StreamCloseNext == Construct \/ Read \/ Seek \/ Close

SpecStreamClose == StreamInit /\ [][StreamCloseNext]_vars

\* ----------------------------------------------------------- reader actions
\* One reader constructs a stream and then only reads from it.
ReaderApply(o) ==
    /\ o.f.pos <= MaxPos
    /\ f' = o.f
    /\ sret' = o.ret
    /\ sprev' = NoPrev
    /\ reader' = IF o.ret.op = "init"
                 THEN (IF o.ret.exc = "none" THEN NewReader ELSE NoReader)
                 ELSE Follow(reader, f, sret, o)
    /\ UNCHANGED <<resource, fvars, th, tasks, loop, fprev>>

ReaderConstruct ==
    /\ f.state = "none"
    /\ \E resp \in HeadResponses(resource) :
          ReaderApply(HTTPRangeFile_init(NoStream, resp))

ReaderRead ==
    /\ f.state = "open"
    /\ \E size \in -1..MaxN :
       \E resp \in GetResponses(resource, f.pos,
                                IF size < 0 THEN readall_range(f)[2]
                                ELSE readinto_range(f, size)[2]) :
          ReaderApply(read(f, size, resp))

ReaderReadinto ==
    /\ f.state = "open"
    /\ \E kind \in {"bytearray", "memoryview"}, n \in 0..MaxN :
       \E resp \in GetResponses(resource, f.pos, readinto_range(f, n)[2]) :
          ReaderApply(readinto(f, kind, n, resp))

ReaderNext == ReaderConstruct \/ ReaderRead \/ ReaderReadinto

SpecReader == StreamInit /\ [][ReaderNext]_vars

\* ----------------------------------------------------------- thread actions
\* Two threads each call read(n), n > 0 (that is, readinto on a fresh
\* bytearray(n)), once on one stream.  Nothing in HTTPRangeFile locks, and
\* the interpreter may switch threads while a GET is awaited and between the
\* load and the store of "self.pos += n".
ThreadSend(t) ==
    /\ th[t].pc = "idle"
    /\ \E n \in 1..MaxN : th' = [th EXCEPT ![t] = thread_send(f, th[t], n)]
    /\ UNCHANGED <<resource, svars, fvars, tasks, loop, fprev, reader>>

ThreadReceive(t) ==
    /\ th[t].pc = "sent"
    /\ \E resp \in GetResponses(resource, th[t].start, th[t].end) :
          th' = [th EXCEPT ![t] = thread_receive(f, th[t], resp)]
    /\ UNCHANGED <<resource, svars, fvars, tasks, loop, fprev, reader>>

ThreadStore(t) ==
    /\ th[t].pc = "loaded"
    /\ f' = thread_store(f, th[t]).f
    /\ th' = [th EXCEPT ![t] = thread_store(f, th[t]).t]
    /\ UNCHANGED <<resource, sret, sprev, fvars, tasks, loop, fprev, reader>>

\* A stream constructed on the resource and moved to some position in it.
ThreadsInit ==
    /\ resource \in SeqsUpTo(Byte, MaxLen)
    /\ \E p \in 0..Len(resource) :
          /\ f = [state |-> "open", size |-> Len(resource), pos |-> p]
          /\ th = [t \in Threads |-> [NoThread EXCEPT !.base = p]]
    /\ sret = NoCall
    /\ sprev = NoPrev
    /\ FsIdle
    /\ TasksIdle
    /\ NoHistory

ThreadsNext ==
    \E t \in Threads : ThreadSend(t) \/ ThreadReceive(t) \/ ThreadStore(t)

SpecThreads == ThreadsInit /\ [][ThreadsNext]_vars

\* ------------------------------------------------------ claims on the stream
\* The bytes start .. stop-1 (0-based) of a resource.
BytesOf(content, start, stop) == [i \in 1..(stop - start) |-> content[start + i]]

\* C1: random-access read.  When the resource has exactly size bytes, a
\* seek(offset, SEEK_SET) with 0 <= offset < size followed by read(n), n > 0,
\* answered by a server that honours Range, returns exactly the bytes
\* offset .. min(offset+n, size)-1, and tell() is then offset plus the number
\* of bytes returned.
C1_SeekThenRead ==
    (/\ sret.op = "read" /\ sret.arg[1] > 0 /\ sret.mode = "range"
     /\ sprev # NoPrev /\ sprev[2] = SEEK_SET
     /\ sprev[1] >= 0 /\ sprev[1] < f.size
     /\ f.size = Len(resource))
    => (/\ sret.exc = "none"
        /\ sret.val = BytesOf(resource, sprev[1],
                              Min(sprev[1] + sret.arg[1], f.size))
        /\ tell(f) = sprev[1] + Len(sret.val))

\* C1 witness: a read of one byte from the middle of a three-byte resource,
\* and a read that is cut short by the end of the resource.
C1_Witness ==
    /\ sret.op = "read" /\ sret.mode = "range" /\ sprev = <<1, SEEK_SET>>
    /\ Len(resource) = 3 /\ f.size = 3
    /\ \/ sret.arg = <<1>> /\ sret.val = <<resource[2]>> /\ f.pos = 2
       \/ sret.arg = <<2>> /\ sret.val = <<resource[2], resource[3]>> /\ f.pos = 3

Max0(a) == IF a < 0 THEN 0 ELSE a

\* C3: the position is never negative, and a read(n), n > 0, or a
\* readinto(buffer) that returns never returns more than n (len(buffer)) bytes
\* nor more than size - position bytes (position taken before the call),
\* whatever body the server sends, a server ignoring Range included.
C3_ReadBounded ==
    /\ f.pos >= 0
    /\ (sret.op = "read" /\ sret.arg[1] > 0 /\ sret.exc = "none")
       => /\ Len(sret.val) <= sret.arg[1]
          /\ Len(sret.val) <= Max0(f.size - sret.pos0)
    /\ (sret.op = "readinto" /\ sret.exc = "none")
       => /\ sret.val <= sret.arg[2]
          /\ sret.val <= Max0(f.size - sret.pos0)

\* The target of seek(offset, whence) from position pos0 on a stream of this
\* size, for the three recognised values of whence.
SeekTarget(offset, whence, pos0, size) ==
    CASE whence = SEEK_SET -> offset
      [] whence = SEEK_CUR -> pos0 + offset
      [] whence = SEEK_END -> size + offset

\* C4: seek moves to offset, position+offset or size+offset; a negative
\* target fails and leaves the position; a non-negative one succeeds, past
\* size too, and tell() returns it; an unrecognised whence fails and leaves
\* the position; seek and tell send no request.
C4_Seek ==
    /\ sret.op = "seek" =>
       LET offset == sret.arg[1]
           whence == sret.arg[2]
       IN  /\ sret.reqs = <<>>
           /\ IF whence \in {SEEK_SET, SEEK_CUR, SEEK_END}
              THEN LET t == SeekTarget(offset, whence, sret.pos0, f.size)
                   IN  IF t < 0
                       THEN sret.exc # "none" /\ f.pos = sret.pos0
                       ELSE sret.exc = "none" /\ f.pos = t /\ tell(f) = t
              ELSE sret.exc # "none" /\ f.pos = sret.pos0
    /\ sret.op = "tell" =>
       /\ sret.reqs = <<>> /\ sret.exc = "none"
       /\ sret.val = f.pos /\ f.pos = sret.pos0
       /\ (sprev # NoPrev /\ sprev[2] = SEEK_SET) => sret.val = sprev[1]

\* C4 witness: a seek relative to the end that lands past the end of a
\* non-empty resource, followed by tell.
C4_Witness ==
    /\ sret.op = "tell" /\ sprev = <<2, SEEK_END>>
    /\ f.size = 2 /\ sret.val = 4

\* -------------------------------------------------- claims on the filesystem
\* The entries (indices into files) that carry this inode.
EntriesOf(inode) == {i \in 1..Len(files) : files[i].inode = inode}
Configured(inode) == EntriesOf(inode) # {}
ResourceOf(inode) == remote[files[CHOOSE i \in EntriesOf(inode) : TRUE].url]

\* C2: filesystem read.  For a configured inode fh, off < length and
\* size > 0, answered by a server that honours Range, read(fh, off, size)
\* sends one GET with Range bytes=off-(off+size-1) and returns exactly the
\* bytes off .. min(off+size, length)-1: size bytes inside the resource, the
\* remaining bytes when the range runs past the end.
C2_FsRead ==
    (/\ ret.op = "read" /\ Configured(ret.arg[1])
     /\ ret.arg[2] < Len(ResourceOf(ret.arg[1]))
     /\ ret.resps # <<>> /\ ret.resps[1].mode = "range")
    => LET fh == ret.arg[1]
           off == ret.arg[2]
           size == ret.arg[3]
           content == ResourceOf(fh)
       IN  /\ ret.exc = "none"
           /\ Len(ret.reqs) = 1
           /\ ret.reqs[1].method = "GET"
           /\ ret.reqs[1].start = off /\ ret.reqs[1].end = off + size - 1
           /\ ret.val = BytesOf(content, off, Min(off + size, Len(content)))
           /\ (off + size <= Len(content) => Len(ret.val) = size)
           /\ (off + size > Len(content) => Len(ret.val) = Len(content) - off)

\* C2 witness: reads of the second entry's three-byte resource: one byte
\* from its middle, and two bytes asked for where one remains.
C2_Witness ==
    /\ ret.op = "read" /\ ret.exc = "none" /\ ret.resps[1].mode = "range"
    /\ Len(files) = 2 /\ Len(remote[2]) = 3
    /\ \/ ret.arg = <<ROOT_INODE + 2, 1, 1>> /\ ret.val = <<remote[2][2]>>
       \/ ret.arg = <<ROOT_INODE + 2, 2, 2>> /\ ret.val = <<remote[2][3]>>

\* C5: the listing protocol.  Resuming from the index the previous call
\* emitted, every call emits exactly one entry, call i emits entry i (its
\* name, in configuration order) with resume index i+1, and the listing ends
\* at index N with ENOENT after every configured name was emitted once.
C5_Listing ==
    /\ \A i \in 1..Len(listing.names) :
          i <= Len(files) /\ listing.names[i] = Bytes(files[i].name.v)
    /\ listing.next >= 0 => listing.next = Len(listing.names)
    /\ listing.end # "none" =>
          listing.end = "ENOENT" /\ Len(listing.names) = Len(files)

\* What C5 says, for the configurations whose names are all ASCII (the
\* part of C5 the code does satisfy).
C5_AsciiListing ==
    (\A i \in 1..Len(files) : EncodeAscii(files[i].name).exc = "none")
    => C5_Listing

\* Whether bit (a power of two) is set in flags.
HasBit(flags, bit) == (flags \div bit) % 2 = 1
WriteIntent(flags) ==
    \E bit \in {O_APPEND, O_TRUNC, O_RDWR, O_WRONLY} : HasBit(flags, bit)

\* C6: open with O_APPEND, O_TRUNC, O_RDWR or O_WRONLY set fails with EACCES
\* for every inode, sends no request and returns no handle; with none of
\* these bits set, open does not fail with EACCES.
C6_OpenWrite ==
    ret.op = "open" =>
        IF WriteIntent(ret.arg[2])
        THEN ret.exc = "EACCES" /\ ret.reqs = <<>> /\ ret.val = <<>>
        ELSE ret.exc # "EACCES"

\* C6 witness: a configured file opened with O_TRUNC, and an inode that is
\* not configured opened for writing without blocking.
C6_Witness ==
    /\ ret.op = "open" /\ ret.exc = "EACCES"
    /\ \/ ret.arg = <<ROOT_INODE + 1, O_TRUNC>> /\ Configured(ROOT_INODE + 1)
       \/ ret.arg = <<ROOT_INODE + 3, O_NONBLOCK + O_WRONLY>>

\* C7: lookup under a parent that is not the root fails with ENOENT for
\* every name; lookup under the root of a name no entry carries fails with
\* ENOENT; neither sends a request.
C7_LookupErrors ==
    ret.op = "lookup" =>
        LET parent == ret.arg[1]
            name == ret.arg[2]
        IN  (\/ parent # ROOT_INODE
             \/ \A i \in 1..Len(files) : files[i].name # name)
            => ret.exc = "ENOENT" /\ ret.reqs = <<>>

\* C7 witness: the name of a configured file looked up under the inode of a
\* configured file.
C7_Witness ==
    /\ ret.op = "lookup" /\ ret.exc = "ENOENT"
    /\ Len(files) = 2 /\ files[1].name = NameA
    /\ ret.arg = <<ROOT_INODE + 2, NameA>>

\* An attribute record of the regular file with this inode and size, owned
\* by the process.
IsFileAttr(a, inode, size) ==
    /\ "st_ino" \in DOMAIN a
    /\ a.st_ino = inode
    /\ a.st_mode = <<"S_IFREG", 4, 4, 4>>
    /\ a.st_size = size
    /\ a.st_uid = ProcessIds.uid /\ a.st_gid = ProcessIds.gid

\* C8: for every configured entry, getattr(inode), lookup(root, name) with
\* the name the driver delivers for the entry (the bytes readdir emits for
\* it), and the attributes readdir emits each yield an attribute record with
\* the entry's inode, mode S_IFREG|0444, the probed Content-Length as size,
\* and the ids of the process as owner.
C8_SameAttributes ==
    /\ (ret.op = "getattr" /\ Configured(ret.arg[1])
        /\ ret.resps[1].status = 200 /\ ret.resps[1].cl # Absent)
       => /\ ret.exc = "none"
          /\ IsFileAttr(ret.val, ret.arg[1], ret.resps[1].cl[1])
    /\ (ret.op = "readdir" /\ ret.emit # <<>>
        /\ ret.resps[1].status = 200 /\ ret.resps[1].cl # Absent)
       => IsFileAttr(ret.emit[1].attr, files[ret.arg[2] + 1].inode,
                     ret.resps[1].cl[1])
    /\ (ret.op = "lookup" /\ ret.arg[1] = ROOT_INODE
        /\ \E i \in 1..Len(files) : ret.arg[2] = Bytes(files[i].name.v))
       => /\ ret.exc = "none"
          /\ "st_ino" \in DOMAIN ret.val
          /\ \E i \in 1..Len(files) :
                /\ ret.arg[2] = Bytes(files[i].name.v)
                /\ ret.val.st_ino = files[i].inode

\* C9: for an inode that is neither the root nor configured, getattr,
\* open with read-only flags, read and opendir each fail with ENOENT and
\* with nothing else, and send no request.
C9_UnresolvedIsENOENT ==
    (/\ ret.op \in {"getattr", "open", "read", "opendir"}
     /\ ret.arg[1] # ROOT_INODE /\ ~Configured(ret.arg[1])
     /\ ret.op = "open" => ~WriteIntent(ret.arg[2]))
    => ret.exc = "ENOENT" /\ ret.reqs = <<>>

\* C10: a non-success status is a failure of the call that made the
\* request: getattr, open and read fail when the server answers their
\* request with a 4xx/5xx status and return nothing taken from the error
\* response; HTTPRangeFile construction, read and readinto fail likewise.
C10_StatusIsFailure ==
    /\ (ret.op \in {"getattr", "open", "read"} /\ ret.resps # <<>>
        /\ IsErrorStatus(ret.resps[1].status))
       => ret.exc # "none" /\ ret.val = <<>>
    /\ (sret.op \in {"init", "read", "readinto"} /\ sret.mode = "error")
       => sret.exc = "HTTPError"

\* The part of C10 about HTTPRangeFile (which the code does satisfy): a
\* non-success status makes construction, read and readinto raise, with the
\* object left as it was and no byte of the error page returned.
C10_StreamPart ==
    (sret.op \in {"init", "read", "readinto"} /\ sret.mode = "error")
    => /\ sret.exc = "HTTPError"
       /\ sret.op = "init" => f.state = "none"
       /\ sret.op = "read" => f.pos = sret.pos0 /\ sret.val = <<>>
       /\ sret.op = "readinto" => f.pos = sret.pos0 /\ sret.val = 0

\* C11: filesystem read past the end.  For a configured inode fh whose
\* resource is L bytes long, read(fh, off, size) with off >= L, answered by
\* a server that honours Range (and so answers this unsatisfiable range with
\* 416 and an error body), returns the empty bytes and does not fail.
C11_ReadPastEnd ==
    (/\ ret.op = "read" /\ Configured(ret.arg[1])
     /\ ret.arg[2] >= Len(ResourceOf(ret.arg[1]))
     /\ ret.resps # <<>> /\ ret.resps[1].mode = "range")
    => ret.exc = "none" /\ ret.val = <<>>

\* Whether the warning "File <name> is nonseekable" is among the warnings.
LoggedNonseekable(log, name) ==
    \E i \in 1..Len(log) :
        log[i].msg = "File is nonseekable" /\ log[i].value = <<name>>

\* C12: open for reading.  open of a configured inode with none of the
\* write bits set, whose probe is answered with success, does not fail; the
\* FileInfo it returns has fh = inode and keep_cache = true, and nonseekable
\* is false exactly when the probe's Accept-Ranges is "bytes" (absent,
\* "none" and every other value give true); the warning that names the
\* resource as nonseekable is logged exactly when nonseekable is true.
C12_OpenRead ==
    (/\ ret.op = "open" /\ Configured(ret.arg[1])
     /\ ~WriteIntent(ret.arg[2])
     /\ ret.resps # <<>> /\ ret.resps[1].status = 200)
    => LET inode == ret.arg[1]
           name == files[CHOOSE i \in EntriesOf(inode) : TRUE].name
       IN  /\ ret.exc = "none"
           /\ ret.val.fh = inode
           /\ ret.val.keep_cache = TRUE
           /\ ret.val.nonseekable = (ret.resps[1].ar # Header("bytes"))
           /\ LoggedNonseekable(ret.log, name) = ret.val.nonseekable

\* C12 witness: the second entry opened read-only (without blocking) with
\* no Accept-Ranges in the probe's answer: nonseekable, and logged as such;
\* and the first entry opened with "Accept-Ranges: bytes": seekable and
\* nothing logged.
C12_Witness ==
    /\ ret.op = "open" /\ ret.exc = "none" /\ Len(files) = 2
    /\ ret.resps[1].status = 200
    /\ \/ /\ ret.arg = <<ROOT_INODE + 2, O_NONBLOCK>>
          /\ ret.resps[1].ar = Absent
          /\ ret.val.nonseekable
          /\ LoggedNonseekable(ret.log, files[2].name)
       \/ /\ ret.arg = <<ROOT_INODE + 1, 0>>
          /\ ret.resps[1].ar = Header("bytes")
          /\ ~ret.val.nonseekable /\ ret.log = <<>>

\* C13: close is idempotent.  A close() of a stream that is closed already
\* returns without error and leaves the stream as it was (closed, at the
\* same position, of the same size); the first close() returns without
\* error, closes the stream and leaves its position and size.
C13_CloseIdempotent ==
    [][sret'.op = "close" /\ f.state # "none" /\ <<f, sret, sprev>>' # <<f, sret, sprev>>
       => /\ sret'.exc = "none"
          /\ f'.state = "closed"
          /\ f'.pos = f.pos /\ f'.size = f.size
          /\ f.state = "closed" => f' = f]_vars

\* C13 witness: a close that follows a close, of a stream at position 2.
C13_Witness ==
    /\ sret.op = "close" /\ sret.exc = "none"
    /\ Len(sprev) = 1 /\ sprev[1] = "close"
    /\ f.state = "closed" /\ f.pos = 2

\* The inodes of the configured entries: the i-th entry (counting from 0)
\* has inode ROOT_INODE + 1 + i, so the inodes are pairwise distinct,
\* contiguous, and none is the root's.
InodesAssigned ==
    /\ \A i \in 1..Len(files) : files[i].inode = ROOT_INODE + 1 + (i - 1)
    /\ \A i, j \in 1..Len(files) : files[i].inode = files[j].inode => i = j
    /\ \A i \in 1..Len(files) : files[i].inode # ROOT_INODE

\* C14: inode assignment.  In every reachable state the i-th configured
\* entry has inode ROOT_INODE + 1 + i, and no getattr, lookup, opendir,
\* readdir, open or read changes the list of (inode, name, url).
C14_InodesStable ==
    /\ []InodesAssigned
    /\ [][files' = files]_vars

\* C14 witness: two entries with the inodes ROOT_INODE + 1 and
\* ROOT_INODE + 2, after bytes of the second were read.
C14_Witness ==
    /\ Len(files) = 2
    /\ files[1].inode = ROOT_INODE + 1 /\ files[2].inode = ROOT_INODE + 2
    /\ ret.op = "read" /\ ret.exc = "none" /\ ret.arg[1] = files[2].inode
    /\ ret.val # <<>>

\* C15: readdir out of range.  readdir(ROOT_INODE, start) with start
\* outside 0 .. N-1, N the number of configured entries, fails with ENOENT
\* and emits nothing: for start >= N and for every negative start.
C15_ReaddirOutOfRange ==
    (/\ ret.op = "readdir" /\ ret.arg[1] = ROOT_INODE
     /\ (ret.arg[2] < 0 \/ ret.arg[2] >= Len(files)))
    => ret.exc = "ENOENT" /\ ret.emit = <<>> /\ ret.reqs = <<>>

\* The part of C15 about start >= N (which the code does satisfy).
C15_PastTheLast ==
    (/\ ret.op = "readdir" /\ ret.arg[1] = ROOT_INODE
     /\ ret.arg[2] >= Len(files))
    => ret.exc = "ENOENT" /\ ret.emit = <<>> /\ ret.reqs = <<>>

\* The bytes a finished thread was handed: Len(data) bytes from start on.
ThreadStop(t) == th[t].start + Len(th[t].data)

\* C16: concurrent calls on one stream.  When two threads have each run
\* read(n) on one stream and both have returned, against a server that
\* honours Range, the position is the position before the calls plus the
\* number of bytes the two calls returned, and the two ranges of bytes
\* returned do not overlap and are adjacent.
C16_ThreadsKeepPosition ==
    (/\ \A t \in Threads : th[t].pc = "done" /\ th[t].exc = "none"
     /\ \A t \in Threads : th[t].mode \in {"range", "none"})
    => /\ f.pos = th[1].base + th[1].val + th[2].val
       /\ \A t, u \in Threads :
             (t # u /\ th[t].val > 0 /\ th[u].val > 0)
             => \/ ThreadStop(t) = th[u].start
                \/ ThreadStop(u) = th[t].start

\* One task waits for the answer to its HTTP request while another task's
\* handler has been entered in the meantime.
Overlap ==
    \E t, u \in Tasks :
        /\ t # u
        /\ tasks[t].pc = "waiting"
        /\ tasks[u].pc \in {"waiting", "replied"} /\ tasks[u].overlap

\* C17: network I/O is a suspension point.  While one filesystem operation
\* waits for its HTTP response another pending operation can start: a state
\* is reached in which one operation has sent its request and has no answer
\* yet and a second operation has taken a step.
C17_SuspensionPoint == <>Overlap

\* What the code does instead: no handler is ever entered while another
\* waits for its answer.
C17_NeverOverlap == \A t \in Tasks : ~tasks[t].overlap

\* The HEAD a call sent for this inode's entry, and nothing else.
OwnProbe(r, inode) ==
    /\ r.reqs = <<FsHead(files[CHOOSE i \in EntriesOf(inode) : TRUE])>>
    /\ Len(r.resps) = 1

\* C18: no metadata is carried between calls.  Every getattr of a
\* configured inode, every entry readdir emits and every open that returns
\* a handle has sent exactly one HEAD of its own for the entry, and the size
\* or the nonseekable flag it returns is the one of the answer to that HEAD
\* (Content-Length, 0 when absent; Accept-Ranges other than "bytes"),
\* whatever the previous call returned for the same entry.
C18_ProbedEveryCall ==
    /\ (ret.op = "getattr" /\ Configured(ret.arg[1]))
       => /\ OwnProbe(ret, ret.arg[1])
          /\ ret.val.st_size = ContentLength(ret.resps[1])
          /\ ret.val.st_mtime_ns = Timestamp(ret.resps[1].lm)
    /\ (ret.op = "readdir" /\ ret.emit # <<>>)
       => /\ OwnProbe(ret, ret.emit[1].attr.st_ino)
          /\ ret.emit[1].attr.st_size = ContentLength(ret.resps[1])
    /\ (ret.op = "open" /\ ret.exc = "none")
       => /\ OwnProbe(ret, ret.arg[1])
          /\ ret.val.nonseekable = (ret.resps[1].ar # Header("bytes"))

\* C18 witness: the resource of the first entry has changed in length
\* between two getattr calls, and the second returns the new length; the
\* Accept-Ranges answer has changed between two open calls, and the second
\* returns the new flag.
C18_Witness ==
    \/ /\ fprev.op = "getattr" /\ fprev.inode = ROOT_INODE + 1
       /\ fprev.out = <<1>>
       /\ ret.op = "getattr" /\ ret.arg[1] = ROOT_INODE + 1
       /\ Len(remote[1]) = 3 /\ ret.val.st_size = 3
    \/ /\ fprev.op = "open" /\ fprev.inode = ROOT_INODE + 1
       /\ fprev.out = <<FALSE>>
       /\ ret.op = "open" /\ ret.arg[1] = ROOT_INODE + 1
       /\ ret.exc = "none" /\ ret.val.nonseekable

\* The stream knows the true length of its resource.
TrueSize == f.state = "open" /\ f.size = Len(resource)

\* C19: sequential reading.  On a stream that knows the true length of its
\* resource, read from position 0 on by read(n), n > 0, against a server
\* that honours Range:
\*  - the chunks returned so far are, concatenated, the bytes 0 .. pos-1 of
\*    the resource, and once a read has returned empty they are all of it;
\*  - a read before the end sends exactly one GET, for the bytes
\*    pos .. min(pos+n-1, size-1), returns as many bytes as the position
\*    advances by, at least one, and fewer than n only when it reaches the
\*    end;
\*  - at or past the end, read(n), read(-1) and readinto return empty (0),
\*    send no request and leave the position.
C19_SequentialRead ==
    /\ (TrueSize /\ reader.seq)
       => /\ f.pos <= f.size
          /\ reader.acc = BytesOf(resource, 0, f.pos)
          /\ (sret.op = "read" /\ sret.val = <<>>) => reader.acc = resource
    /\ (TrueSize /\ reader.seq /\ sret.op = "read" /\ sret.pos0 < f.size)
       => LET n == sret.arg[1]
          IN  /\ sret.reqs = <<GetRequest(sret.pos0,
                                          Min(sret.pos0 + n - 1, f.size - 1))>>
              /\ f.pos = sret.pos0 + Len(sret.val)
              /\ Len(sret.val) >= 1 /\ Len(sret.val) <= n
              /\ Len(sret.val) < n => f.pos = f.size
    /\ (f.state = "open" /\ sret.op \in {"read", "readinto"}
        /\ sret.pos0 >= f.size)
       => /\ sret.exc = "none" /\ sret.reqs = <<>> /\ f.pos = sret.pos0
          /\ sret.op = "read" => sret.val = <<>>
          /\ sret.op = "readinto" => sret.val = 0

\* C19 witness: a three-byte resource read to its end by read(n) calls, and
\* the read(2) after that, which returns empty and sends nothing.
C19_Witness ==
    /\ TrueSize /\ reader.seq /\ Len(resource) = 3
    /\ reader.acc = resource
    /\ sret.op = "read" /\ sret.arg = <<2>> /\ sret.pos0 = 3
    /\ sret.val = <<>> /\ sret.reqs = <<>>

\* C20: a failed read leaves the cursor.  When the GET of read(n), read(-1)
\* or readinto is answered with a non-success status, the call raises, has
\* sent that one request only, and the position and the size are what they
\* were before the call; the read that follows, answered by a server
\* honouring Range, starts at that same position and, on a stream that knows
\* the true length of its resource, returns the resource's bytes from that
\* position on.
C20_FailedReadKeepsCursor ==
    /\ (sret.op \in {"read", "readinto"} /\ sret.mode = "error")
       => /\ sret.exc = "HTTPError"
          /\ Len(sret.reqs) = 1
          /\ <<f.pos, f.size>> = reader.last
          /\ sret.op = "read" => sret.val = <<>>
    /\ (/\ reader.failed # <<>> /\ sret.op = "read" /\ sret.arg[1] # 0
        /\ sret.mode = "range" /\ TrueSize)
       => LET n == sret.arg[1]
              pos == reader.failed[1]
              stop == IF n < 0 THEN f.size ELSE Min(pos + n, f.size)
          IN  /\ sret.exc = "none"
              /\ sret.pos0 = pos /\ f.size = reader.failed[2]
              /\ sret.val = BytesOf(resource, pos, stop)
              /\ f.pos = stop

\* C20 witness: at position 1 of a three-byte resource a read has failed on
\* a 500 answer, and the read(2) that follows has returned bytes 1 and 2.
C20_Witness ==
    /\ TrueSize /\ Len(resource) = 3
    /\ reader.failed = <<1, 3>>
    /\ sret.op = "read" /\ sret.arg = <<2>> /\ sret.exc = "none"
    /\ sret.pos0 = 1 /\ sret.val = <<resource[2], resource[3]>>
    /\ f.pos = 3

====
